---- MODULE Spec2Model ----
(***************************************************************************)
(* Model of the telemetry store (SensorDataManager) and of the ingestion   *)
(* callback (MQTTClient.on_message) of mine_armour_dashboard.py, together  *)
(* with the dashboard callbacks that read the store.                       *)
(***************************************************************************)
EXTENDS Integers, Sequences, FiniteSets, TLC

VARIABLES
    data,      \* SensorDataManager.data: group -> key -> deque | latest dict
    lock,      \* SensorDataManager.lock: "free" or the name of its holder
    clock,     \* number of datetime.now() calls made so far; the n-th call
               \* returns n, so a timestamp identifies the append that took it
    wpc,       \* writer thread: 0 = idle, i = next statement of add_gas_data
    loc,       \* writer thread: local variables of the running add_gas_data
    cur,       \* writer thread: the document passed to the running add_gas_data
    rjob,      \* reader thread: the dashboard callback it runs (kind "idle" if none)
    rpc,       \* reader thread: position in that callback
    view,      \* reader thread: group -> the dict returned by get_*_data
    obs,       \* reader thread: <<group, key>> -> the list(...) it built from a view
    polls,     \* number of dashboard callbacks started so far
    snap,      \* history: group -> the group's contents when get_*_data returned
    hist,      \* history: one entry per message handed to on_message
    connected, \* MQTTClient.connected
    client,    \* MQTTClient.client: 0 = None, n = the n-th mqtt.Client created
    net,       \* per mqtt.Client created: its socket, its network loop thread
    dpc,       \* main thread: position in MQTTClient.disconnect
    losses,    \* history: number of transport losses so far
    lostSince, \* history: Connected was lost and connect() was not called since
    arrived,   \* history: number of messages delivered to on_message so far
    order      \* history: per entry of hist, the arrival number of the message

vars == <<data, lock, clock, wpc, loc, cur, rjob, rpc, view, obs, polls, snap, hist,
          connected, client, net, dpc, losses, lostSince, arrived, order>>

writerVars == <<wpc, loc, cur>>
readerVars == <<rjob, rpc, view, obs, polls, snap>>
clientVars == <<connected, client, net, dpc>>
eventVars == <<losses, lostSince, arrived, order>>

----------------------------------------------------------------------------
(* Bounds *)

max_points == 2       \* capacity of every deque (100 in the program)
ExtraMsgs == 1        \* messages beyond capacity in the whole-handler specification
MaxMsgs == max_points + ExtraMsgs
MaxFieldMsgs == 2     \* messages delivered in the per-field specification
MaxConcMsgs == 2      \* messages delivered in the concurrent specification
MaxPolls == 2         \* dashboard callbacks run in the concurrent specification

----------------------------------------------------------------------------
(* Values carried by JSON documents and stored in the deques.  Python       *)
(* compares -1 and -1.0 as equal, so numbers are integers here.             *)

Num(n) == [t |-> "num", n |-> n]
None == [t |-> "None", n |-> 0]
Text == [t |-> "str", n |-> 0]

IsNumber(v) == v.t = "num"

----------------------------------------------------------------------------
(* SensorDataManager.__init__ *)

GroupNames == {"gas_sensors", "health_sensors", "environmental_sensors", "gps_data"}

SeriesOf(g) ==
    CASE g = "gas_sensors" -> {"LPG", "CH4", "Propane", "Butane", "H2"}
      [] g = "health_sensors" -> {"heartRate", "spo2", "GSR", "stress"}
      [] g = "environmental_sensors" -> {"temperature", "humidity"}
      [] g = "gps_data" -> {"lat", "lon", "alt", "sat"}

Fields == UNION {SeriesOf(g) : g \in GroupNames}

InitLatest(g) ==
    CASE g = "gas_sensors" ->
            [k \in {"LPG", "CH4", "Propane", "Butane", "H2", "timestamp"} |->
                IF k = "timestamp" THEN None ELSE Num(0)]
      [] g = "gps_data" ->
            [k \in {"lat", "lon", "alt", "sat"} |-> Num(0)]

KeysOf(g) ==
    {"timestamps"} \cup SeriesOf(g)
        \cup (IF g \in {"gas_sensors", "gps_data"} THEN {"latest"} ELSE {})

InitData ==
    [g \in GroupNames |->
        [k \in KeysOf(g) |-> IF k = "latest" THEN InitLatest(g) ELSE <<>>]]

DequeAppendNoEvict(q, x) == Append(q, x)

(* deque(maxlen=max_points).append: the oldest element leaves on overflow *)
DequeAppend(q, x) ==
    LET a == Append(q, x)
    IN  IF Len(a) > max_points THEN Tail(a) ELSE a

----------------------------------------------------------------------------
(* Documents: what json.loads makes of a payload.  kind "invalid" is a     *)
(* payload that is not UTF-8 JSON, "object" a JSON object with the given    *)
(* fields, "other" any other JSON value (list, number, string, null).       *)

Doc(kind, fields) == [kind |-> kind, fields |-> fields]

GetDefaultsToZero(doc, k, d) == IF k \in DOMAIN doc.fields THEN doc.fields[k] ELSE Num(0)

(* dict.get(key, default); any non-dict value has no attribute get *)
Get(doc, k, d) == IF k \in DOMAIN doc.fields THEN doc.fields[k] ELSE d

gas_topic == "LOKI_2004"
Topics == {gas_topic, "OTHER"}

----------------------------------------------------------------------------
(* SensorDataManager.add_gas_data, statement by statement *)

LocalNames ==
    {"timestamp", "lpg", "ch4", "propane", "butane", "h2", "heartRate", "spo2",
     "gsr", "stress", "temperature", "humidity", "lat", "lon", "alt", "sat"}

InitLoc == [v \in LocalNames |-> None]

S(line, op, g, s, v, d) == [line |-> line, op |-> op, g |-> g, s |-> s, v |-> v, d |-> d]

Stmts ==
    << S(648, "acquire", "", "", "", None),
       S(649, "now", "", "", "timestamp", None),
       S(652, "append", "gas_sensors", "timestamps", "timestamp", None),
       S(654, "get", "", "LPG", "lpg", Num(0)),
       S(655, "get", "", "CH4", "ch4", Num(0)),
       S(656, "get", "", "Propane", "propane", Num(0)),
       S(657, "get", "", "Butane", "butane", Num(0)),
       S(658, "get", "", "H2", "h2", Num(0)),
       S(660, "append", "gas_sensors", "LPG", "lpg", None),
       S(661, "append", "gas_sensors", "CH4", "ch4", None),
       S(662, "append", "gas_sensors", "Propane", "propane", None),
       S(663, "append", "gas_sensors", "Butane", "butane", None),
       S(664, "append", "gas_sensors", "H2", "h2", None),
       S(667, "append", "health_sensors", "timestamps", "timestamp", None),
       S(668, "get", "", "heartRate", "heartRate", Num(-1)),
       S(669, "get", "", "spo2", "spo2", Num(-1)),
       S(670, "get", "", "GSR", "gsr", Num(0)),
       S(671, "get", "", "stress", "stress", Num(0)),
       S(673, "appendNorm", "health_sensors", "heartRate", "heartRate", Num(-1)),
       S(674, "appendNorm", "health_sensors", "spo2", "spo2", Num(-1)),
       S(675, "append", "health_sensors", "GSR", "gsr", None),
       S(676, "append", "health_sensors", "stress", "stress", None),
       S(679, "append", "environmental_sensors", "timestamps", "timestamp", None),
       S(680, "get", "", "temperature", "temperature", Num(-1)),
       S(681, "get", "", "humidity", "humidity", Num(-1)),
       S(683, "appendNorm", "environmental_sensors", "temperature", "temperature", Num(-1)),
       S(684, "appendNorm", "environmental_sensors", "humidity", "humidity", Num(-1)),
       S(687, "append", "gps_data", "timestamps", "timestamp", None),
       S(688, "get", "", "lat", "lat", Num(0)),
       S(689, "get", "", "lon", "lon", Num(0)),
       S(690, "get", "", "alt", "alt", Num(0)),
       S(691, "get", "", "sat", "sat", Num(0)),
       S(693, "append", "gps_data", "lat", "lat", None),
       S(694, "append", "gps_data", "lon", "lon", None),
       S(695, "append", "gps_data", "alt", "alt", None),
       S(696, "append", "gps_data", "sat", "sat", None),
       S(699, "latest", "gas_sensors", "", "", None),
       S(719, "latest", "gps_data", "", "", None),
       S(726, "log", "", "", "", None) >>

(* the local variable each key of a latest dict is filled from *)
LocalOf(k) ==
    CASE k = "LPG" -> "lpg" [] k = "CH4" -> "ch4" [] k = "Propane" -> "propane"
      [] k = "Butane" -> "butane" [] k = "H2" -> "h2" [] k = "GSR" -> "gsr"
      [] OTHER -> k

LatestKeys(g) ==
    CASE g = "gas_sensors" -> Fields \cup {"timestamp"}
      [] g = "gps_data" -> {"lat", "lon", "alt", "sat"}

NewLatestNoTimestamp(g, l) ==
    [k \in LatestKeys(g) |-> IF k = "timestamp" THEN None ELSE l[LocalOf(k)]]

NewLatest(g, l) == [k \in LatestKeys(g) |-> l[LocalOf(k)]]

NormalizeKeepsSentinel(x, sentinel) == x

(* `x if x != sentinel else None` *)
Normalize(x, sentinel) == IF x # sentinel THEN x ELSE None

(* does the statement raise?  data.get on a non-dict raises AttributeError; *)
(* the f-string of line 726 formats lpg, lat and lon with :.2f / :.6f,      *)
(* which raises for a value that is not a number                            *)
Raises(st, doc, l) ==
    \/ st.op = "get" /\ doc.kind # "object"
    \/ st.op = "log" /\ ~(IsNumber(l["lpg"]) /\ IsNumber(l["lat"]) /\ IsNumber(l["lon"]))

ExecDataNormalizesAll(st, d, l) ==
    CASE st.op \in {"append", "appendNorm"} ->
            [d EXCEPT ![st.g][st.s] =
                DequeAppend(@, IF st.s = "timestamps" THEN l[st.v]
                               ELSE Normalize(l[st.v], Num(-1)))]
      [] st.op = "latest" ->
            [d EXCEPT ![st.g]["latest"] = NewLatest(st.g, l)]
      [] OTHER -> d

ExecDataKeepsLatest(st, d, l) ==
    CASE st.op = "append" ->
            [d EXCEPT ![st.g][st.s] = DequeAppend(@, l[st.v])]
      [] st.op = "appendNorm" ->
            [d EXCEPT ![st.g][st.s] = DequeAppend(@, Normalize(l[st.v], st.d))]
      [] OTHER -> d

(* the store after the statement *)
ExecData(st, d, l) ==
    CASE st.op = "append" ->
            [d EXCEPT ![st.g][st.s] = DequeAppend(@, l[st.v])]
      [] st.op = "appendNorm" ->
            [d EXCEPT ![st.g][st.s] = DequeAppend(@, Normalize(l[st.v], st.d))]
      [] st.op = "latest" ->
            [d EXCEPT ![st.g]["latest"] = NewLatest(st.g, l)]
      [] OTHER -> d

(* the local variables after the statement *)
ExecLoc(st, doc, l, now) ==
    CASE st.op = "now" -> [l EXCEPT ![st.v] = Num(now)]
      [] st.op = "get" -> [l EXCEPT ![st.v] = Get(doc, st.s, st.d)]
      [] OTHER -> l

RECURSIVE Run(_, _, _, _, _)
Run(i, d, l, doc, now) ==
    IF i > Len(Stmts) THEN [data |-> d, loc |-> l, raised |-> FALSE]
    ELSE IF Raises(Stmts[i], doc, l) THEN [data |-> d, loc |-> l, raised |-> TRUE]
    ELSE Run(i + 1, ExecData(Stmts[i], d, l), ExecLoc(Stmts[i], doc, l, now), doc, now)

(* a whole call of add_gas_data on store d, the clock reading now *)
add_gas_data(d, doc, now) == Run(1, d, InitLoc, doc, now)

(* get_gas_data, get_health_data, get_environmental_data, get_gps_data:    *)
(* dict.copy() is a shallow copy.  The returned dict holds the current      *)
(* latest dict and REFERENCES to the deques of the store, so the model      *)
(* keeps the latest value and the names of the deques the view refers to.   *)
get_data(d, g) ==
    [k \in DOMAIN d[g] |-> IF k = "latest" THEN d[g][k] ELSE <<g, k>>]

(* what a consumer gets by list(view[k]) in a store state d *)
Deref(d, ref) == d[ref[1]][ref[2]]

----------------------------------------------------------------------------
(* MQTTClient.on_message as one step *)

Outcome(topic, doc, res) ==
    IF doc.kind = "invalid" THEN "dropped"
    ELSE IF topic # gas_topic THEN "ignored"
    ELSE IF res.raised THEN "raised"
    ELSE "ok"

CallsAnyTopic(topic, doc) == doc.kind # "invalid"

CallsUnparsed(topic, doc) == topic = gas_topic

(* on_message reaches add_gas_data only after payload.decode and json.loads
   succeeded, and only on the subscribed topic. *)
Calls(topic, doc) == doc.kind # "invalid" /\ topic = gas_topic

on_message(topic, doc) ==
    LET res == add_gas_data(data, doc, clock + 1)
    IN  /\ data' = IF Calls(topic, doc) THEN res.data ELSE data
        /\ clock' = IF Calls(topic, doc) THEN clock + 1 ELSE clock
        /\ hist' = Append(hist, [topic |-> topic, doc |-> doc,
                                 ts |-> IF Calls(topic, doc) THEN clock + 1 ELSE 0,
                                 outcome |-> Outcome(topic, doc, res)])
        /\ UNCHANGED <<lock, writerVars, readerVars>>

----------------------------------------------------------------------------
(* Payloads *)

FullValue(k) ==
    CASE k = "LPG" -> 12 [] k = "CH4" -> 3 [] k = "Propane" -> 1 [] k = "Butane" -> 4
      [] k = "H2" -> 2 [] k = "heartRate" -> 72 [] k = "spo2" -> 98 [] k = "GSR" -> 10
      [] k = "stress" -> 5 [] k = "temperature" -> 26 [] k = "humidity" -> 55
      [] k = "lat" -> 13 [] k = "lon" -> 77 [] k = "alt" -> 900 [] k = "sat" -> 7

NoFields == [k \in {} |-> None]
Full == [k \in Fields |-> Num(FullValue(k))]
Only(k, v) == [j \in {k} |-> v]
With(f, k, v) == [j \in DOMAIN f \cup {k} |-> IF j = k THEN v ELSE f[j]]
Without(f, k) == [j \in DOMAIN f \ {k} |-> f[j]]

Invalid == Doc("invalid", NoFields)
NotObject == Doc("other", NoFields)

SeqDocs ==
    { Invalid, NotObject, Doc("object", NoFields), Doc("object", Full),
      Doc("object", Only("LPG", Num(1))),
      Doc("object", With(Full, "heartRate", Num(-1))),
      Doc("object", With(Full, "LPG", None)),
      Doc("object", With(Full, "lat", Text)) }

----------------------------------------------------------------------------
(* Dashboard callbacks (the consumers of the store) *)

Job(kind, g, s) == [kind |-> kind, g |-> g, s |-> s]
Idle == Job("idle", "", "")
At(at, i) == [at |-> at, i |-> i]
NoViews == [x \in {} |-> <<>>]
NotDisconnecting == [at |-> "none", was |-> FALSE]

(* update_lpg_chart ... update_h2_chart and update_gsr_chart build their   *)
(* trace from list(view['timestamps']) and list(view[series])              *)
ChartJobs ==
    {Job("chart", "gas_sensors", s) : s \in SeriesOf("gas_sensors")}
        \cup {Job("chart", "health_sensors", "GSR")}

(* a consumer that takes the view of each group and lists its timestamps *)
PollOrder == <<"gas_sensors", "health_sensors", "environmental_sensors", "gps_data">>
PollJob == Job("poll4", "", "")

----------------------------------------------------------------------------
(* Whole-handler specification: messages are handled one after another *)

Init ==
    /\ data = InitData
    /\ lock = "free"
    /\ clock = 0
    /\ wpc = 0
    /\ loc = InitLoc
    /\ cur = Invalid
    /\ rjob = Idle
    /\ rpc = At("idle", 0)
    /\ view = NoViews
    /\ obs = NoViews
    /\ polls = 0
    /\ snap = NoViews
    /\ hist = <<>>
    /\ connected = FALSE
    /\ client = 0
    /\ net = <<>>
    /\ dpc = NotDisconnecting
    /\ losses = 0
    /\ lostSince = FALSE
    /\ arrived = 0
    /\ order = <<>>

SeqMessage ==
    /\ Len(hist) < MaxMsgs
    /\ \E topic \in Topics, doc \in SeqDocs :
          /\ topic # gas_topic => doc \in {Invalid, Doc("object", Full)}
          /\ on_message(topic, doc)
    /\ UNCHANGED <<clientVars, eventVars>>

NextSeq == SeqMessage

SpecSeq == Init /\ [][NextSeq]_vars

----------------------------------------------------------------------------
(* Per-field specification: add_gas_data is called, through on_message,    *)
(* with readings that vary every field over absent, sentinel, zero, null   *)
(* and an ordinary value                                                   *)

FieldReadings ==
    {NoFields, Full}
        \cup {With(Full, k, v) : k \in Fields, v \in {Num(-1), Num(0)}}
        \cup {Without(Full, k) : k \in Fields}
        \cup {Only(k, Num(1)) : k \in Fields}
        \cup {Only("LPG", None), Only("heartRate", None), Only("lat", Text)}

FieldMessage ==
    /\ Len(hist) < MaxFieldMsgs
    /\ \E f \in FieldReadings : on_message(gas_topic, Doc("object", f))
    /\ UNCHANGED <<clientVars, eventVars>>

NextField == FieldMessage

SpecField == Init /\ [][NextField]_vars

----------------------------------------------------------------------------
(* Concurrent specification: the network thread runs on_message and        *)
(* add_gas_data one statement at a time while a dashboard thread runs a    *)
(* callback                                                                *)

ConcDocs == {Invalid, NotObject, Doc("object", NoFields), Doc("object", Full)}

(* on_message up to the call of add_gas_data (lines 776-783) *)
Deliver(topic, doc) ==
    /\ wpc = 0
    /\ Len(hist) < MaxConcMsgs
    /\ IF Calls(topic, doc)
       THEN /\ wpc' = 1
            /\ cur' = doc
            /\ loc' = InitLoc
            /\ hist' = hist
       ELSE /\ hist' = Append(hist, [topic |-> topic, doc |-> doc, ts |-> 0,
                                     outcome |-> Outcome(topic, doc, [raised |-> FALSE])])
            /\ UNCHANGED writerVars
    /\ UNCHANGED <<data, lock, clock, readerVars>>
    /\ UNCHANGED <<clientVars, eventVars>>

Returned(outcome) ==
    [topic |-> gas_topic, doc |-> cur, ts |-> clock, outcome |-> outcome]

ViewsAfterUpdateInPlace(st, v, d) ==
    [g \in DOMAIN v |->
        IF st.op = "latest" /\ st.g = g THEN With(v[g], "latest", d[g]["latest"]) ELSE v[g]]

(* the views held by a consumer after a statement of add_gas_data that    *)
(* left the store as d: lines 699 and 719 bind the key 'latest' to a newly *)
(* built dict, so the dict a view got from dict.copy() is not touched      *)
ViewsAfter(st, v, d) == v

LockAfterRaiseLeaks == "writer"

(* the lock when an exception leaves the `with self.lock:` block of line   *)
(* 648: the context manager releases it                                    *)
LockAfterRaise == "free"

(* one statement of add_gas_data; leaving the with block, normally or by   *)
(* an exception, releases the lock and on_message logs the result          *)
WriterStep ==
    /\ wpc > 0
    /\ LET st == Stmts[wpc]
       IN  IF st.op = "acquire"
           THEN /\ lock = "free"
                /\ lock' = "writer"
                /\ wpc' = wpc + 1
                /\ UNCHANGED <<data, clock, loc, cur, hist>>
           ELSE IF Raises(st, cur, loc)
           THEN /\ lock' = LockAfterRaise
                /\ wpc' = 0
                /\ hist' = Append(hist, Returned("raised"))
                /\ UNCHANGED <<data, clock, loc, cur>>
           ELSE /\ data' = ExecData(st, data, loc)
                /\ loc' = ExecLoc(st, cur, loc, clock + 1)
                /\ clock' = IF st.op = "now" THEN clock + 1 ELSE clock
                /\ IF wpc = Len(Stmts)
                   THEN /\ lock' = "free"
                        /\ wpc' = 0
                        /\ hist' = Append(hist, Returned("ok"))
                   ELSE /\ wpc' = wpc + 1
                        /\ UNCHANGED <<lock, hist>>
                /\ UNCHANGED cur
    /\ view' = ViewsAfter(Stmts[wpc], view, data')
    /\ UNCHANGED <<rjob, rpc, obs, polls, snap>>
    /\ UNCHANGED <<clientVars, eventVars>>

CurGroup == IF rjob.kind = "chart" THEN rjob.g ELSE PollOrder[rpc.i]

Start(job) ==
    /\ rjob = Idle
    /\ polls < MaxPolls
    /\ rjob' = job
    /\ rpc' = At("get", 1)
    /\ polls' = polls + 1
    /\ UNCHANGED <<data, lock, clock, writerVars, view, obs, snap, hist>>
    /\ UNCHANGED <<clientVars, eventVars>>

(* get_*_data: `with self.lock` *)
GetAcquire ==
    /\ rpc.at = "get"
    /\ lock = "free"
    /\ lock' = "reader"
    /\ rpc' = At("copy", rpc.i)
    /\ UNCHANGED <<data, clock, writerVars, rjob, view, obs, polls, snap, hist>>
    /\ UNCHANGED <<clientVars, eventVars>>

(* get_*_data: `return self.data[group].copy()` and the release of the lock *)
GetCopy ==
    /\ rpc.at = "copy"
    /\ view' = With(view, CurGroup, get_data(data, CurGroup))
    /\ snap' = With(snap, CurGroup, data[CurGroup])
    /\ lock' = "free"
    /\ rpc' = IF rjob.kind = "chart" THEN At("check", 1)
              ELSE IF rpc.i < Len(PollOrder) THEN At("get", rpc.i + 1)
              ELSE At("read", 1)
    /\ UNCHANGED <<data, clock, writerVars, rjob, obs, polls, hist>>
    /\ UNCHANGED <<clientVars, eventVars>>

(* `if gas_data['timestamps'] and gas_data['LPG']:` *)
ChartCheck ==
    /\ rpc.at = "check"
    /\ rpc' = IF /\ Deref(data, view[rjob.g]["timestamps"]) # <<>>
                 /\ Deref(data, view[rjob.g][rjob.s]) # <<>>
              THEN At("read_x", 1) ELSE At("done", 1)
    /\ UNCHANGED <<data, lock, clock, writerVars, rjob, view, obs, polls, snap, hist>>
    /\ UNCHANGED <<clientVars, eventVars>>

(* `x=list(gas_data['timestamps'])` *)
ChartReadX ==
    /\ rpc.at = "read_x"
    /\ obs' = With(obs, <<rjob.g, "timestamps">>, Deref(data, view[rjob.g]["timestamps"]))
    /\ rpc' = At("read_y", 1)
    /\ UNCHANGED <<data, lock, clock, writerVars, rjob, view, polls, snap, hist>>
    /\ UNCHANGED <<clientVars, eventVars>>

(* `y=list(gas_data['LPG'])` *)
ChartReadY ==
    /\ rpc.at = "read_y"
    /\ obs' = With(obs, <<rjob.g, rjob.s>>, Deref(data, view[rjob.g][rjob.s]))
    /\ rpc' = At("done", 1)
    /\ UNCHANGED <<data, lock, clock, writerVars, rjob, view, polls, snap, hist>>
    /\ UNCHANGED <<clientVars, eventVars>>

(* list(view['timestamps']) for the next of the four views *)
PollRead ==
    /\ rpc.at = "read"
    /\ obs' = With(obs, <<CurGroup, "timestamps">>, Deref(data, view[CurGroup]["timestamps"]))
    /\ rpc' = IF rpc.i < Len(PollOrder) THEN At("read", rpc.i + 1) ELSE At("done", 1)
    /\ UNCHANGED <<data, lock, clock, writerVars, rjob, view, polls, snap, hist>>
    /\ UNCHANGED <<clientVars, eventVars>>

(* the callback returns *)
Finish ==
    /\ rpc.at = "done"
    /\ rjob' = Idle
    /\ rpc' = At("idle", 0)
    /\ view' = NoViews
    /\ obs' = NoViews
    /\ snap' = NoViews
    /\ UNCHANGED <<data, lock, clock, writerVars, polls, hist>>
    /\ UNCHANGED <<clientVars, eventVars>>

Next ==
    \/ \E topic \in Topics, doc \in ConcDocs : Deliver(topic, doc)
    \/ WriterStep
    \/ \E job \in ChartJobs \cup {PollJob} : Start(job)
    \/ GetAcquire
    \/ GetCopy
    \/ ChartCheck
    \/ ChartReadX
    \/ ChartReadY
    \/ PollRead
    \/ Finish

Spec == Init /\ [][Next]_vars

(* The same threads under fair scheduling: a thread that can take a step
   eventually takes it.  The receive loop handles two kinds of payload and
   the dashboard runs one chart callback and the poll. *)
FairDocs == {NotObject, Doc("object", Full)}
FairJobs == {Job("chart", "gas_sensors", "LPG"), PollJob}

NextFair ==
    \/ \E doc \in FairDocs : Deliver(gas_topic, doc)
    \/ WriterStep
    \/ \E job \in FairJobs : Start(job)
    \/ GetAcquire
    \/ GetCopy
    \/ ChartCheck
    \/ ChartReadX
    \/ ChartReadY
    \/ PollRead
    \/ Finish

Fairness ==
    /\ WF_vars(WriterStep)
    /\ WF_vars(GetAcquire)
    /\ WF_vars(GetCopy)

SpecFair == Init /\ [][NextFair]_vars /\ Fairness

----------------------------------------------------------------------------
(* The MQTT client (lines 748-827).  connect() creates a paho client and
   starts its network loop thread with loop_start(); the callbacks
   on_connect, on_message and on_disconnect run on that thread.  The loop
   thread reads the socket, and after a transport loss it dials the broker
   again by itself until loop_stop() asks it to terminate.  connect() and
   disconnect() run on the main thread. *)

MaxConnects == 2     \* calls of connect() that create a client
MaxLosses == 1       \* transport losses
MaxLoopMsgs == 2     \* messages the network loops deliver

ResultCodes == {0, 5}     \* CONNACK: 0 accepted, 5 not authorised

NoMsg == [topic |-> "", doc |-> Invalid, arr |-> 0]

(* a client object as mqtt.Client(...) returns it: no socket, no thread *)
NewClient == [link |-> "none", loop |-> "none", sub |-> FALSE, msg |-> NoMsg]

Clients == 1..Len(net)
SocketOpenAlways(c) == TRUE

(* client c has a socket: one was opened by connect() or by the loop's     *)
(* reconnect and has not been closed since                                  *)
SocketOpen(c) == net[c].link \in {"sent", "up", "refused"}

(* loop_stop() has set the terminate flag of client c's thread *)
Terminating(c) == dpc.at = "join" /\ c = client

(* the payloads a loop hands to on_message *)
LoopMsgs == {<<gas_topic, d>> : d \in {Invalid, NotObject, Doc("object", Full)}}

on_connectIgnoresRc(rc) == [connected |-> TRUE, subscribe |-> TRUE]

(* on_connect (lines 765-773): the flag and the subscription after it *)
on_connect(rc) ==
    [connected |-> IF rc = 0 THEN TRUE ELSE connected, subscribe |-> rc = 0]

on_disconnectKeepsState == [connected |-> connected]

(* on_disconnect (lines 789-791) *)
on_disconnect == [connected |-> FALSE]

EscapesUncaught(outcome) == outcome \in {"dropped", "raised"}

(* on_message wraps its whole body in try / except Exception (lines 776,
   786), so no outcome of the handler raises into the loop thread *)
Escapes(outcome) == FALSE

(* MQTTClient.connect (lines 793-817).  self.client is replaced at line
   796; anything from there to client.connect may raise, and is logged at
   line 817; otherwise the CONNECT packet is sent and loop_start() starts
   the thread.  (An exception of the constructor itself leaves every
   variable as it was.) *)
connect(outcome) ==
    /\ dpc.at = "none"
    /\ Len(net) < MaxConnects
    /\ client' = Len(net) + 1
    /\ net' = Append(net,
            IF outcome = "ok"
            THEN [NewClient EXCEPT !.link = "sent", !.loop = "run"]
            ELSE NewClient)
    /\ lostSince' = FALSE
    /\ UNCHANGED <<data, lock, clock, writerVars, readerVars, hist>>
    /\ UNCHANGED <<connected, dpc, losses, arrived, order>>

(* the loop thread of client c reads the CONNACK and calls on_connect *)
ConnAck(c, rc) ==
    /\ net[c].loop = "run"
    /\ net[c].link = "sent"
    /\ connected' = on_connect(rc).connected
    /\ net' = [net EXCEPT ![c].link = IF rc = 0 THEN "up" ELSE "refused",
                          ![c].sub = @ \/ on_connect(rc).subscribe]
    /\ UNCHANGED <<data, lock, clock, writerVars, readerVars, hist>>
    /\ UNCHANGED <<client, dpc, losses, lostSince, arrived, order>>

(* the broker closes the connection (as it does after it refused the
   handshake) or the network fails: the loop thread of client c calls
   on_disconnect *)
Lost(c) ==
    /\ net[c].loop = "run"
    /\ SocketOpen(c)
    /\ losses < MaxLosses
    /\ connected' = on_disconnect.connected
    /\ net' = [net EXCEPT ![c].link = "down"]
    /\ losses' = losses + 1
    /\ lostSince' = (lostSince \/ connected)
    /\ UNCHANGED <<data, lock, clock, writerVars, readerVars, hist>>
    /\ UNCHANGED <<client, dpc, arrived, order>>

(* loop_start (line 812): the loop thread dials the broker again after a
   loss, unless loop_stop() has asked it to terminate *)
Reconnect(c) ==
    /\ net[c].loop = "run"
    /\ ~Terminating(c)
    /\ net[c].link = "down"
    /\ net' = [net EXCEPT ![c].link = "sent"]
    /\ UNCHANGED <<data, lock, clock, writerVars, readerVars, hist>>
    /\ UNCHANGED <<connected, client, dpc, losses, lostSince, arrived, order>>

(* the loop thread of client c reads a PUBLISH and calls on_message *)
Receive(c, topic, doc) ==
    /\ net[c].loop = "run"
    /\ net[c].link = "up"
    /\ net[c].sub
    /\ arrived < MaxLoopMsgs
    /\ arrived' = arrived + 1
    /\ net' = [net EXCEPT ![c].loop = "recv",
                          ![c].msg = [topic |-> topic, doc |-> doc, arr |-> arrived + 1]]
    /\ UNCHANGED <<data, lock, clock, writerVars, readerVars, hist>>
    /\ UNCHANGED <<connected, client, dpc, losses, lostSince, order>>

(* on_message (lines 775-787) on the loop thread of client c: the body runs
   under the store's lock, one handler at a time *)
Handle(c) ==
    /\ net[c].loop = "recv"
    /\ on_message(net[c].msg.topic, net[c].msg.doc)
    /\ order' = Append(order, net[c].msg.arr)
    /\ net' = [net EXCEPT
                 ![c].loop = IF Escapes(Outcome(net[c].msg.topic, net[c].msg.doc,
                                                add_gas_data(data, net[c].msg.doc, clock + 1)))
                             THEN "dead" ELSE "run",
                 ![c].msg = NoMsg]
    /\ UNCHANGED <<connected, client, dpc, losses, lostSince, arrived>>

(* MQTTClient.disconnect (lines 819-823): nothing to do without a client;
   otherwise loop_stop() sets the terminate flag of self.client's thread and
   waits for the thread *)
DisconnectBegin ==
    /\ dpc.at = "none"
    /\ dpc' = IF client = 0 THEN NotDisconnecting ELSE [at |-> "join", was |-> connected]
    /\ UNCHANGED <<data, lock, clock, writerVars, readerVars, hist>>
    /\ UNCHANGED <<connected, client, net, losses, lostSince, arrived, order>>

(* MQTTClient.disconnect (lines 823-827): the thread of self.client, back
   from its callback, has seen the flag and ended and loop_stop() returns;
   client.disconnect() writes DISCONNECT on an open socket, closes it and
   calls on_disconnect on the calling thread; without a socket it does
   nothing *)
DisconnectFinish ==
    /\ dpc.at = "join"
    /\ net[client].loop # "recv"
    /\ connected' = IF SocketOpen(client) THEN on_disconnect.connected ELSE connected
    /\ net' = [net EXCEPT ![client].loop = IF @ = "run" THEN "exited" ELSE @,
                          ![client].link = IF SocketOpen(client) THEN "closed" ELSE @]
    /\ dpc' = NotDisconnecting
    /\ UNCHANGED <<data, lock, clock, writerVars, readerVars, hist>>
    /\ UNCHANGED <<client, losses, lostSince, arrived, order>>

NextConn ==
    \/ \E outcome \in {"raises", "ok"} : connect(outcome)
    \/ \E c \in Clients, rc \in ResultCodes : ConnAck(c, rc)
    \/ \E c \in Clients : Lost(c)
    \/ \E c \in Clients : Reconnect(c)
    \/ \E c \in Clients, m \in LoopMsgs : Receive(c, m[1], m[2])
    \/ \E c \in Clients : Handle(c)
    \/ DisconnectBegin
    \/ DisconnectFinish

SpecConn == Init /\ [][NextConn]_vars

----------------------------------------------------------------------------
(* What the documentation says an append stores, written from the wire     *)
(* format table and not from the statements above                          *)

NormalizedFields == {"heartRate", "spo2", "temperature", "humidity"}
Sentinel == Num(-1)

DefaultOf(k) == IF k \in NormalizedFields THEN Sentinel ELSE Num(0)
RawOf(k, doc) == IF k \in DOMAIN doc.fields THEN doc.fields[k] ELSE DefaultOf(k)
WindowedOf(k, doc) ==
    IF k \in NormalizedFields /\ RawOf(k, doc) = Sentinel THEN None ELSE RawOf(k, doc)
ExpectedEntry(k, h) == IF k = "timestamps" THEN Num(h.ts) ELSE WindowedOf(k, h.doc)

Range(q) == {q[i] : i \in 1..Len(q)}
Min(a, b) == IF a < b THEN a ELSE b
LastN(q, n) == SubSeq(q, Len(q) - n + 1, Len(q))

IsCall(h) == h.outcome \in {"ok", "raised"}
CallEntries == SelectSeq(hist, IsCall)
IsOk(h) == h.outcome = "ok"
OkEntries == SelectSeq(hist, IsOk)
AllCallsCompleted == \A i \in 1..Len(hist) : hist[i].outcome # "raised"
LastCallCompleted ==
    /\ Len(CallEntries) > 0
    /\ CallEntries[Len(CallEntries)].outcome = "ok"
LastCall == CallEntries[Len(CallEntries)]

----------------------------------------------------------------------------
(* C1: after any sequence of add_gas_data calls, whether or not a call     *)
(* completed normally, every series of every group is as long as that      *)
(* group's timestamps sequence.                                            *)
Lockstep ==
    \A g \in GroupNames : \A k \in SeriesOf(g) :
        Len(data[g][k]) = Len(data[g]["timestamps"])

(* C5: when n calls of add_gas_data have been made and all have completed, *)
(* every series and every timestamps sequence has length min(n, C) and     *)
(* holds the entries of the latest min(n, C) appends in arrival order; the *)
(* timestamps of the older appends are in no timestamps sequence.          *)
BoundedFifo ==
    AllCallsCompleted =>
        LET n == Len(OkEntries)
            m == Min(n, max_points)
            w == LastN(OkEntries, m)
        IN  \A g \in GroupNames : \A k \in {"timestamps"} \cup SeriesOf(g) :
                /\ Len(data[g][k]) = m
                /\ \A i \in 1..m : data[g][k][i] = ExpectedEntry(k, w[i])
                /\ \A j \in 1..(n - m) :
                        Num(OkEntries[j].ts) \notin Range(data[g]["timestamps"])

BoundedFifoWitness ==
    /\ AllCallsCompleted
    /\ Len(OkEntries) > max_points
    /\ Len(data["gas_sensors"]["LPG"]) = max_points
    /\ data["gas_sensors"]["LPG"][1] # data["gas_sensors"]["LPG"][max_points]

(* C6: with no add_gas_data call in progress, the timestamps sequences of  *)
(* the four groups are identical.                                          *)
TimestampsIdentical ==
    wpc = 0 =>
        \A g \in GroupNames : data[g]["timestamps"] = data["gas_sensors"]["timestamps"]

(* C8 as stated: after a completed add_gas_data call the view of every     *)
(* group has a latest record with the group's raw values of that append    *)
(* and the append's timestamp.                                             *)
LatestInEveryGroup ==
    LastCallCompleted =>
        \A g \in GroupNames :
            /\ "latest" \in DOMAIN get_data(data, g)
            /\ SeriesOf(g) \cup {"timestamp"} \subseteq DOMAIN get_data(data, g)["latest"]
            /\ \A k \in SeriesOf(g) : get_data(data, g)["latest"][k] = RawOf(k, LastCall.doc)
            /\ get_data(data, g)["latest"]["timestamp"] = Num(LastCall.ts)

(* C8 amended: after a completed add_gas_data call the gas_sensors view    *)
(* has a latest record with the raw values of all fields of that append    *)
(* and its timestamp, the gps_data view has a latest record with the raw   *)
(* lat, lon, alt, sat of that append and no timestamp, and the views of    *)
(* health_sensors and environmental_sensors have no latest record.         *)
LatestInGasAndGps ==
    LastCallCompleted =>
        /\ DOMAIN get_data(data, "gas_sensors")["latest"] = Fields \cup {"timestamp"}
        /\ \A k \in Fields :
                get_data(data, "gas_sensors")["latest"][k] = RawOf(k, LastCall.doc)
        /\ get_data(data, "gas_sensors")["latest"]["timestamp"] = Num(LastCall.ts)
        /\ DOMAIN get_data(data, "gps_data")["latest"] = SeriesOf("gps_data")
        /\ \A k \in SeriesOf("gps_data") :
                get_data(data, "gps_data")["latest"][k] = RawOf(k, LastCall.doc)
        /\ "latest" \notin DOMAIN get_data(data, "health_sensors")
        /\ "latest" \notin DOMAIN get_data(data, "environmental_sensors")

LatestInGasAndGpsWitness ==
    /\ LastCallCompleted
    /\ Len(OkEntries) >= 2
    /\ LastCall.doc.fields = NoFields
    /\ data["gas_sensors"]["latest"]["heartRate"] = Sentinel
    /\ data["gps_data"]["latest"]["sat"] = Num(0)

----------------------------------------------------------------------------
GroupOf(k) == CHOOSE g \in GroupNames : k \in SeriesOf(g)
Newest(q) == q[Len(q)]
Called == Len(CallEntries) > 0
LastFields == LastCall.doc.fields
GasLatest == data["gas_sensors"]["latest"]
GpsLatest == data["gps_data"]["latest"]

(* C7: for heartRate, spo2, temperature and humidity, an append whose      *)
(* reading omits the field or carries the sentinel -1 puts None as the     *)
(* newest entry of the windowed series while latest reports the raw -1;    *)
(* no entry of these four series ever equals the sentinel.                 *)
AbsenceNormalization ==
    /\ Called =>
         \A k \in NormalizedFields :
            (k \notin DOMAIN LastFields \/ LastFields[k] = Sentinel) =>
                /\ Newest(data[GroupOf(k)][k]) = None
                /\ GasLatest[k] = Sentinel
    /\ \A k \in NormalizedFields : Sentinel \notin Range(data[GroupOf(k)][k])

AbsenceNormalizationWitness ==
    /\ Len(CallEntries) = 2
    /\ "heartRate" \in DOMAIN LastFields
    /\ LastFields["heartRate"] = Sentinel
    /\ "temperature" \notin DOMAIN CallEntries[1].doc.fields
    /\ data["health_sensors"]["heartRate"][2] = None
    /\ data["environmental_sensors"]["temperature"][1] = None
    /\ GasLatest["heartRate"] = Sentinel

(* C9: after add_gas_data with a reading in which a field is present, the  *)
(* newest entry of the field's series is the reading's value (for the four *)
(* normalized fields: when the value is not the sentinel), latest echoes   *)
(* every present field verbatim, and on an empty store a full reading of   *)
(* numbers without sentinels leaves every series with one entry, none of   *)
(* them None.                                                              *)
FullNonSentinel(f) ==
    /\ DOMAIN f = Fields
    /\ \A k \in Fields : IsNumber(f[k])
    /\ \A k \in NormalizedFields : f[k] # Sentinel

StoredAsReceived ==
    Called =>
        /\ \A k \in DOMAIN LastFields :
              /\ (k \notin NormalizedFields \/ LastFields[k] # Sentinel) =>
                    Newest(data[GroupOf(k)][k]) = LastFields[k]
              /\ GasLatest[k] = LastFields[k]
              /\ k \in SeriesOf("gps_data") => GpsLatest[k] = LastFields[k]
        /\ (Len(CallEntries) = 1 /\ FullNonSentinel(LastFields)) =>
              \A g \in GroupNames : \A k \in SeriesOf(g) \cup {"timestamps"} :
                  Len(data[g][k]) = 1 /\ data[g][k][1] # None

StoredAsReceivedWitness ==
    /\ Len(CallEntries) = 1
    /\ FullNonSentinel(LastFields)
    /\ LastFields["LPG"] = Num(-1)
    /\ data["gas_sensors"]["LPG"] = <<Num(-1)>>
    /\ data["gps_data"]["sat"] = <<Num(7)>>
    /\ GasLatest["GSR"] = Num(10)

(* C10: every field missing from the reading takes its default: 0 in the   *)
(* series and in latest for the gas fields, GSR, stress and the GPS        *)
(* fields; None in the series and -1 in latest for heartRate, spo2,        *)
(* temperature and humidity; the fields that are present keep their value. *)
PerFieldDefaults ==
    Called =>
        /\ \A k \in Fields \ DOMAIN LastFields :
              IF k \in {"heartRate", "spo2", "temperature", "humidity"}
              THEN /\ Newest(data[GroupOf(k)][k]) = None
                   /\ GasLatest[k] = Num(-1)
              ELSE /\ Newest(data[GroupOf(k)][k]) = Num(0)
                   /\ GasLatest[k] = Num(0)
                   /\ k \in SeriesOf("gps_data") => GpsLatest[k] = Num(0)
        /\ \A k \in DOMAIN LastFields :
              /\ GasLatest[k] = LastFields[k]
              /\ LastFields[k] # Sentinel => Newest(data[GroupOf(k)][k]) = LastFields[k]

PerFieldDefaultsWitness ==
    /\ Called
    /\ LastFields = Only("LPG", Num(1))
    /\ Newest(data["gas_sensors"]["LPG"]) = Num(1)
    /\ Newest(data["gas_sensors"]["CH4"]) = Num(0)
    /\ Newest(data["health_sensors"]["spo2"]) = None
    /\ GasLatest["spo2"] = Num(-1)

----------------------------------------------------------------------------
(* Claims about concurrent readers *)

InFlight == wpc > 0 /\ loc["timestamp"] # None
TimestampSlots == {x \in DOMAIN obs : x[2] = "timestamps"}

(* C2: while an add_gas_data call is in flight, a reader of the four       *)
(* groups never has the new reading's timestamp in the timestamps it       *)
(* observed for one group and not in those it observed for another.        *)
AtomicFanOut ==
    InFlight =>
        \A a \in TimestampSlots : \A b \in TimestampSlots :
            loc["timestamp"] \in Range(obs[a]) => loc["timestamp"] \in Range(obs[b])

(* C3: the series and the latest record a consumer reads out of a view, at *)
(* any time after get_*_data returned it, are what they were at the return.*)
ReadNow(g, k) == IF k = "latest" THEN view[g][k] ELSE Deref(data, view[g][k])

SnapshotIndependent ==
    /\ \A g \in DOMAIN view : \A k \in DOMAIN view[g] : ReadNow(g, k) = snap[g][k]
    /\ \A x \in DOMAIN obs : obs[x] = snap[x[1]][x[2]]

(* the store after the first j messages of the history *)
RECURSIVE Replay(_)
Replay(j) ==
    IF j = 0 THEN InitData
    ELSE IF IsCall(hist[j]) THEN add_gas_data(Replay(j - 1), hist[j].doc, hist[j].ts).data
    ELSE Replay(j - 1)

(* C4: the series a chart callback reads out of one view have equal        *)
(* lengths and, with the view's latest record, are those of the store      *)
(* after one single completed add_gas_data call.                           *)
ViewConsistent ==
    (rjob.kind = "chart" /\ rpc.at = "done" /\ DOMAIN obs # {}) =>
        /\ Len(obs[<<rjob.g, "timestamps">>]) = Len(obs[<<rjob.g, rjob.s>>])
        /\ \E j \in 1..Len(hist) :
              /\ hist[j].outcome = "ok"
              /\ obs[<<rjob.g, "timestamps">>] = Replay(j)[rjob.g]["timestamps"]
              /\ obs[<<rjob.g, rjob.s>>] = Replay(j)[rjob.g][rjob.s]
              /\ "latest" \in DOMAIN view[rjob.g] =>
                    view[rjob.g]["latest"] = Replay(j)[rjob.g]["latest"]

----------------------------------------------------------------------------
(* C11: a payload on the subscribed topic that is not valid UTF-8 or not valid
   JSON is dropped by on_message: every series of every group has the same
   length after the handler as before it, and both latest records are the
   same. *)
MalformedLeavesStore ==
    [][(/\ Len(hist') = Len(hist) + 1
        /\ Newest(hist').topic = gas_topic
        /\ Newest(hist').doc.kind = "invalid")
       => /\ \A g \in GroupNames : \A k \in SeriesOf(g) \cup {"timestamps"} :
                Len(data'[g][k]) = Len(data[g][k])
          /\ \A g \in {"gas_sensors", "gps_data"} :
                data'[g]["latest"] = data[g]["latest"]]_vars

MalformedLeavesStoreWitness ==
    /\ Len(hist) >= 2
    /\ Newest(hist).topic = gas_topic
    /\ Newest(hist).doc.kind = "invalid"
    /\ hist[Len(hist) - 1].outcome = "ok"
    /\ Len(data["gas_sensors"]["LPG"]) >= 1

----------------------------------------------------------------------------
(* C13: add_gas_data completes without raising for every reading that maps
   field names to optional numeric values (the empty reading and readings
   with null values included), and each such call advances every series of
   all four groups by exactly one entry. *)
OptionalNumeric(doc) ==
    /\ doc.kind = "object"
    /\ \A k \in DOMAIN doc.fields : doc.fields[k].t \in {"num", "None"}

NoFailureModes ==
    [][(/\ Len(hist') = Len(hist) + 1
        /\ Newest(hist').topic = gas_topic
        /\ OptionalNumeric(Newest(hist').doc))
       => /\ Newest(hist').outcome = "ok"
          /\ \A g \in GroupNames : \A k \in SeriesOf(g) \cup {"timestamps"} :
                Len(data'[g][k]) = Min(Len(data[g][k]) + 1, max_points)]_vars

----------------------------------------------------------------------------
(* C14: read-your-append.  When a get_*_data call copies its group under the
   lock and some add_gas_data call has returned before, the returned view's
   timestamps are not empty, their newest element is the timestamp of that
   append or of a later one (that append's own when no later call has run),
   the append's timestamp is in the window unless later appends evicted it,
   and the latest record of the view is at least as recent as that append. *)
ReadYourAppend ==
    [][(rpc.at = "copy" /\ rpc'.at # "copy" /\ Len(OkEntries) > 0)
       => LET g == CurGroup
              h == Newest(OkEntries)
              q == Deref(data', view'[g]["timestamps"])
          IN  /\ q # <<>>
              /\ Newest(q).n >= h.ts
              /\ clock = h.ts => Newest(q) = Num(h.ts)
              /\ clock - h.ts < max_points => Num(h.ts) \in Range(q)
              /\ g = "gas_sensors" =>
                    /\ view'[g]["latest"]["timestamp"].t = "num"
                    /\ view'[g]["latest"]["timestamp"].n >= h.ts
              /\ (g \in {"gas_sensors", "gps_data"} /\ clock = h.ts) =>
                    \A k \in LatestKeys(g) \ {"timestamp"} :
                        view'[g]["latest"][k] = RawOf(k, h.doc)]_vars

(* a view of the GPS group was taken after two appends had returned *)
ReadYourAppendWitness ==
    /\ Len(OkEntries) = 2
    /\ "gps_data" \in DOMAIN view
    /\ Len(snap["gps_data"]["timestamps"]) = 2
    /\ view["gps_data"]["latest"]["lat"] = RawOf("lat", Newest(OkEntries).doc)

----------------------------------------------------------------------------
(* C12: a bad message never stops ingestion.  Every run of on_message, for
   whatever payload, leaves the connection state as it was, leaves the lock
   free and returns to the network loop, which keeps running; and a
   well-formed message on the topic is decoded and appended to all four
   groups, whatever messages were handled before it. *)
WellFormed(h) ==
    /\ h.topic = gas_topic
    /\ h.doc.kind = "object"
    /\ \A k \in DOMAIN h.doc.fields : IsNumber(h.doc.fields[k])

IsBad(h) == h.outcome \in {"dropped", "raised"}

BadMessageNeverStops ==
    [][Len(hist') = Len(hist) + 1
       => /\ connected' = connected
          /\ lock' = "free"
          /\ \A c \in Clients : net[c].loop = "recv" /\ net'[c].loop # "recv"
                                    => net'[c].loop = "run"
          /\ WellFormed(Newest(hist'))
                => /\ Newest(hist').outcome = "ok"
                   /\ \A g \in GroupNames :
                         Newest(data'[g]["timestamps"]) = Num(Newest(hist').ts)]_vars

(* a well-formed message was appended right after one that made
   add_gas_data raise, on a connection that stayed Connected *)
BadMessageNeverStopsWitness ==
    /\ Len(hist) = 2
    /\ IsBad(hist[1]) /\ hist[1].outcome = "raised"
    /\ WellFormed(hist[2]) /\ hist[2].outcome = "ok"
    /\ connected
    /\ Len(net) = 1 /\ net[1].loop = "run"

----------------------------------------------------------------------------
(* C15: arrival order is preserved.  Take the messages whose handling
   appended to a series, in the order in which they were delivered to
   on_message: every series holds the entries of the most recent of them in
   that order, so the entry of an earlier message precedes the entry of a
   later one, and each group's timestamps are in the order of arrival. *)
AppendsTo(g, k, h) ==
    /\ IsCall(h)
    /\ h.doc.kind = "object" \/ (g = "gas_sensors" /\ k = "timestamps")

ByArrival(g, k) ==
    LET idx == {i \in 1..Len(hist) : AppendsTo(g, k, hist[i])}
        rank(i) == Cardinality({j \in idx : order[j] <= order[i]})
    IN  [r \in 1..Cardinality(idx) |-> hist[CHOOSE i \in idx : rank(i) = r]]

ArrivalOrderPreserved ==
    \A g \in GroupNames : \A k \in SeriesOf(g) \cup {"timestamps"} :
        LET calls == ByArrival(g, k)
            n == Min(Len(calls), max_points)
        IN  data[g][k] = [i \in 1..n |-> ExpectedEntry(k, calls[Len(calls) - n + i])]

----------------------------------------------------------------------------
(* C16: disconnect() ends in Disconnected.  When disconnect() was called
   while the connection flag was Connected, the flag is Disconnected when
   disconnect() returns. *)
DisconnectEndsDisconnected ==
    [][(dpc.at = "join" /\ dpc'.at = "none" /\ dpc.was) => ~connected']_vars

----------------------------------------------------------------------------
(* C17: no processing after teardown.  From the moment disconnect() has
   begun, and as long as connect() is not called again, no message reaches
   add_gas_data: the store and its clock do not change, and once
   disconnect() has returned no network loop is running.  Stated for the
   runs in which connect() created a single client, where disconnect() has
   returned exactly when the loop of that client has exited. *)
NoProcessingAfterTeardown ==
    [][(Len(net) = 1 /\ (dpc.at = "join" \/ net[1].loop = "exited"))
       => /\ data' = data
          /\ clock' = clock
          /\ dpc'.at = "none" => net'[1].loop \notin {"run", "recv"}]_vars

----------------------------------------------------------------------------
(* C18: a handshake failure is not fatal.  When connect() has logged an
   exception and returned, and when on_connect has been called with a
   non-zero result code, the connection flag is Disconnected. *)
ConnectRaised == Len(net') = Len(net) + 1 /\ net'[Len(net')].loop = "none"
Refused == \E c \in Clients : net[c].link = "sent" /\ net'[c].link = "refused"

HandshakeFailureDisconnected ==
    [][(ConnectRaised \/ Refused) => ~connected']_vars

----------------------------------------------------------------------------
(* C19: transport loss is reflected in the state.  Every on_disconnect
   callback for a broker close or network error leaves the flag
   Disconnected, and after a loss the flag goes from Disconnected to
   Connected only in an on_connect callback with result code 0. *)
Accepted == \E c \in Clients : net[c].link = "sent" /\ net'[c].link = "up"

LossIsReflected ==
    [][/\ losses' = losses + 1 => ~connected'
       /\ (losses > 0 /\ ~connected /\ connected') => Accepted]_vars

(* the transport was lost while Connected and the flag is Disconnected *)
LossIsReflectedWitness ==
    /\ lostSince
    /\ \E c \in Clients : net[c].link = "down"
    /\ ~connected

----------------------------------------------------------------------------
(* C20, as stated: the flag is Disconnected before any connect(), and after
   it went from Connected to Disconnected by a transport loss it is not
   Connected again as long as connect() has not been called again.  Stated
   for the runs in which connect() created a single client. *)
NoAutomaticRecovery ==
    /\ Len(net) = 0 => ~connected
    /\ (Len(net) = 1 /\ lostSince) => ~connected

(* C20, amended: the flag is Disconnected before any connect(), and it goes
   from Disconnected to Connected only when the running network loop of a
   client that connect() created reads a successful CONNACK; after a
   transport loss that loop dials again by itself, so this happens without
   a new connect() call. *)
RecoveryOnlyByHandshake ==
    /\ [](Len(net) = 0 => ~connected)
    /\ [][(~connected /\ connected')
          => \E c \in Clients : /\ net[c].loop = "run"
                                 /\ net[c].link = "sent"
                                 /\ net'[c].link = "up"]_vars

(* the only client lost its transport while Connected and is Connected
   again, and connect() was called once *)
RecoveryOnlyByHandshakeWitness ==
    /\ Len(net) = 1
    /\ lostSince
    /\ connected
    /\ net[1].link = "up"

----------------------------------------------------------------------------
(* C26: only the one fixed topic feeds the store.  A message handed to
   on_message with a topic other than LOKI_2004 leaves every series and
   every latest record as they were, whatever its payload, and whenever
   the store changes the message handled was on LOKI_2004. *)
OnlyFixedTopicFeeds ==
    [][Len(hist') = Len(hist) + 1
       => /\ Newest(hist').topic # gas_topic => data' = data
          /\ data' # data => Newest(hist').topic = gas_topic]_vars

(* a complete reading arrived on another topic after one was appended, and
   the store still holds the one entry *)
OnlyFixedTopicFeedsWitness ==
    /\ Len(hist) = 2
    /\ hist[1].outcome = "ok"
    /\ hist[2].topic # gas_topic
    /\ hist[2].doc = Doc("object", Full)
    /\ Len(data["gas_sensors"]["timestamps"]) = 1

----------------------------------------------------------------------------
(* C27: all-or-nothing append.  Whenever on_message logs a processing error
   for a message on the subscribed topic, the store is exactly as it was
   before the message: no timestamps sequence, series or latest record has
   changed. *)
AllOrNothing ==
    [][(/\ Len(hist') = Len(hist) + 1
        /\ Newest(hist').topic = gas_topic
        /\ IsBad(Newest(hist')))
       => data' = data]_vars

----------------------------------------------------------------------------
(* C30: latest agrees with the window.  With no add_gas_data call in
   progress and at least one append completed, the timestamp of the
   combined latest record of gas_sensors is the newest element of every
   group's timestamps, each of its values is the newest entry of that
   field's series (the raw sentinel where the series holds the absent
   marker), and the latest record of gps_data holds the newest entries of
   lat, lon, alt and sat. *)
AgreesWithNewest(k, v) ==
    LET e == Newest(data[GroupOf(k)][k])
    IN  v = e \/ (k \in NormalizedFields /\ e = None /\ v = Sentinel)

LatestAgreesWithWindow ==
    Len(OkEntries) > 0
    => /\ \A g \in GroupNames :
             GasLatest["timestamp"] = Newest(data[g]["timestamps"])
       /\ \A k \in Fields : AgreesWithNewest(k, GasLatest[k])
       /\ \A k \in SeriesOf("gps_data") : GpsLatest[k] = Newest(data["gps_data"][k])

----------------------------------------------------------------------------
(* C29: the latest record captured in a view is stable.  As long as a
   consumer holds a view returned by get_gas_data or get_gps_data, the
   latest record inside it has the values it had when the call returned,
   whatever add_gas_data has appended since. *)
LatestStable ==
    \A g \in DOMAIN view :
        "latest" \in DOMAIN view[g] => view[g]["latest"] = snap[g]["latest"]

(* a view is held whose latest record is older than the store's, after the
   append that replaced it has returned *)
LatestStableWitness ==
    /\ wpc = 0
    /\ \E g \in DOMAIN view :
          /\ "latest" \in DOMAIN view[g]
          /\ view[g]["latest"] # data[g]["latest"]

----------------------------------------------------------------------------
(* C24: no I/O inside the critical section.  add_gas_data is never at a
   statement that emits a log record while it holds the store lock (the
   get_*_data calls only copy). *)
NoIoUnderLock ==
    ~(wpc > 0 /\ Stmts[wpc].op = "log" /\ lock = "writer")

----------------------------------------------------------------------------
(* C25: mutual exclusion over all shared state.  No consumer reads a series
   out of a view (the emptiness test and the list(...) calls of a chart
   callback, the list(...) calls of a poll) while add_gas_data holds the
   store lock, that is, while it is in the middle of modifying the store. *)
ReadsSeries == rpc.at \in {"check", "read_x", "read_y", "read"} /\ rpc' # rpc

MutualExclusion ==
    [][ReadsSeries => lock # "writer"]_vars

----------------------------------------------------------------------------
(* C28: no deadlock and no leaked lock.  Whenever neither add_gas_data nor
   a get_*_data call is inside its with block the lock is free, also after
   add_gas_data raised partway; and under fair scheduling every
   add_gas_data call and every get_*_data call that has started eventually
   returns. *)
InGet(i) == rpc.at \in {"get", "copy"} /\ rpc.i = i

NoLeakedLock ==
    /\ []((wpc <= 1 /\ rpc.at # "copy") => lock = "free")
    /\ (wpc > 0) ~> (wpc = 0)
    /\ \A i \in 1..Len(PollOrder) : InGet(i) ~> ~InGet(i)

(* add_gas_data has raised partway and a later get_*_data call is copying
   under the lock *)
NoLeakedLockWitness ==
    /\ Len(hist) > 0
    /\ Newest(hist).outcome = "raised"
    /\ rpc.at = "copy"
    /\ lock = "reader"

----------------------------------------------------------------------------
(* C23: single writer.  At every moment at most one receive loop is active
   for the MQTTClient, whatever sequence of connect() and disconnect() calls
   was made, connect() called again without a disconnect() included. *)
ActiveLoops == {c \in Clients : net[c].loop \in {"run", "recv"}}

SingleWriter == Cardinality(ActiveLoops) <= 1

----------------------------------------------------------------------------
(* C21: connected only through a successful handshake.  The flag is set
   only while the client made by the latest connect() call has had its
   handshake accepted and has seen no disconnect since, so it is not set
   between a connect() call and the outcome of the handshake; and a
   subscription is issued only by the step that accepts a handshake. *)
HandshakeAccepted == client # 0 /\ net[client].link = "up"

Subscribes(c) == ~net[c].sub /\ net'[c].sub

HandshakeOnly ==
    [][/\ connected' => HandshakeAccepted'
       /\ \A c \in Clients :
            Subscribes(c) => (net[c].link = "sent" /\ net'[c].link = "up")]_vars

----------------------------------------------------------------------------
(* C22: disconnect() is idempotent.  A disconnect() call made when the
   MQTTClient is already disconnected (connect() was never called, connect()
   failed, or disconnect() was already called) changes neither the
   connection flag, nor the clients, nor the store; and disconnect() always
   returns in such a state, so that a second call changes nothing. *)
TornDown ==
    \/ client = 0
    \/ /\ net[client].loop \in {"none", "exited"}
       /\ net[client].link \in {"none", "down", "closed"}

DisconnectStep == dpc' # dpc

DisconnectIdempotent ==
    [][DisconnectStep =>
          /\ TornDown => (connected' = connected /\ net' = net /\ data' = data)
          /\ dpc'.at = "none" => TornDown']_vars

(* a second disconnect() call is in progress on a client whose loop has
   already been stopped by the first *)
DisconnectIdempotentWitness ==
    /\ dpc.at = "join"
    /\ net[client].loop = "exited"
    /\ net[client].link = "closed"

====
